---- MODULE Spec2Model ----
(***************************************************************************)
(* State-machine model of jobnotify.py: the configuration check, the       *)
(* sequential query loop, dedupe, and the CSV / e-mail reporter of main(). *)
(*                                                                         *)
(* Text values are modelled as integers: None is the absent value (Python  *)
(* None), Empty the empty string "", and 1, 2, ... are distinct non-empty  *)
(* strings.  Both None and Empty are falsy in Python.                      *)
(***************************************************************************)
EXTENDS Integers, Sequences, FiniteSets, TLC

VARIABLES
    env,          \* the five required environment values, as read at import
    pc,           \* position of main()
    qi,           \* index into QUERIES of the next query of the for loop
    all_results,  \* main's accumulator
    results,      \* main's deduplicated list
    csvFile,      \* content of daily_jobs_google.csv on disk
    emails,       \* messages handed over successfully by s.send_message
    stdout,       \* lines printed
    exitCode,     \* -1 while running, 0 normal return, 1 SystemExit / uncaught
    attempts,     \* history: the queries google_search was called with
    fetched,      \* history: per attempt, what the search step produced
    saveLog,      \* history: the outcome of each call of save_csv
    sendLog,      \* history: subject, attachment flag and outcome of each
                  \* call of send_email
    smtpConnects  \* history: number of SMTP connections attempted

vars == <<env, pc, qi, all_results, results, csvFile, emails, stdout,
          exitCode, attempts, fetched, saveLog, sendLog, smtpConnects>>

----------------------------------------------------------------------------
(* Bounds of the model *)

\* non-empty urls are 1..MaxUrl
MaxUrl == 11

\* largest number of items in one search response
MaxItems == 5

----------------------------------------------------------------------------
(* Values *)

None == -1
Empty == 0

\* Python truthiness of an optional string
Truthy(v) == v /= None /\ v /= Empty

\* the slice bound of results[:10]
TopN == 10

QUERIES == <<"q_chennai", "q_metros", "q_sre">>

RequiredVars == {"GOOGLE_API_KEY", "GOOGLE_CSE_ID", "RECIPIENT_EMAIL",
                 "SMTP_USER", "SMTP_PASS"}

\* os.getenv of a required variable: None when unset, "" when set empty
EnvValues == {None, Empty, 1}

NoResultsSubject == "Daily Jobs Report - No Results"
ReportSubject == "Daily Jobs Report - <date> (Google Search)"
CsvPath == "daily_jobs_google.csv"

----------------------------------------------------------------------------
(* Search responses *)

\* starts of the url windows a response page may cover
PageStarts == {s \in 0..MaxUrl : s % (MaxItems - 1) = 0}

PageLens == 0..MaxItems

\* the link of an item: window value 0 stands for a missing link (odd
\* positions) or an empty one (even positions)
LinkOf(x, k) == IF x = 0 THEN (IF k % 2 = 1 THEN None ELSE Empty) ELSE x

\* a response page: len items; with step 1 consecutive urls starting at
\* start (wrapping round), with step 0 the same url len times
Page(start, len, step) ==
    [k \in 1..len |->
        [title   |-> k,
         link    |-> LinkOf((start + (k - 1) * step) % (MaxUrl + 1), k),
         snippet |-> (k % 3) - 1]]

\* parsed JSON bodies: with an items list, or without the key
JsonBodies ==
    {[has_items |-> TRUE, items |-> Page(s, l, d)] :
        s \in PageStarts, l \in PageLens, d \in {0, 1}}
    \cup {[has_items |-> FALSE, items |-> <<>>]}

\* outcomes of google_search: requests.get raises, raise_for_status raises,
\* or the parsed body is returned
SearchOutcomes ==
    {[kind |-> "network_error", json |-> [has_items |-> FALSE, items |-> <<>>]],
     [kind |-> "http_error", json |-> [has_items |-> FALSE, items |-> <<>>]]}
    \cup {[kind |-> "ok", json |-> j] : j \in JsonBodies}

\* search_json.get("items", [])
ItemsOf(search_json) ==
    IF search_json.has_items THEN search_json.items ELSE <<>>

extract_results(search_json) ==
    [k \in 1..Len(ItemsOf(search_json)) |->
        [title   |-> ItemsOf(search_json)[k].title,
         url     |-> ItemsOf(search_json)[k].link,
         snippet |-> ItemsOf(search_json)[k].snippet]]

----------------------------------------------------------------------------
(* dedupe *)

RECURSIVE dedupe_loop(_, _, _, _)
dedupe_loop(rs, i, seen, out) ==
    IF i > Len(rs) THEN out
    ELSE IF Truthy(rs[i].url) /\ rs[i].url \notin seen
         THEN dedupe_loop(rs, i + 1, seen \cup {rs[i].url}, Append(out, rs[i]))
         ELSE dedupe_loop(rs, i + 1, seen, out)

\* dedupe without the "key not in seen" test
dedupe_no_seen(rs) == SelectSeq(rs, LAMBDA r : Truthy(r.url))

\* dedupe with "not key or key not in seen": records without a url kept
RECURSIVE dedupe_keep_empty_loop(_, _, _, _)
dedupe_keep_empty_loop(rs, i, seen, out) ==
    IF i > Len(rs) THEN out
    ELSE IF ~Truthy(rs[i].url)
         THEN dedupe_keep_empty_loop(rs, i + 1, seen, Append(out, rs[i]))
         ELSE IF rs[i].url \notin seen
              THEN dedupe_keep_empty_loop(rs, i + 1, seen \cup {rs[i].url},
                                          Append(out, rs[i]))
              ELSE dedupe_keep_empty_loop(rs, i + 1, seen, out)

dedupe_keep_empty(rs) == dedupe_keep_empty_loop(rs, 1, {}, <<>>)

Reverse(s) == [k \in 1..Len(s) |-> s[Len(s) + 1 - k]]

\* dedupe that keeps the last occurrence of each url instead of the first
dedupe_keep_last(rs) == Reverse(dedupe_loop(Reverse(rs), 1, {}, <<>>))

dedupe(rs) == dedupe_loop(rs, 1, {}, <<>>)

----------------------------------------------------------------------------
(* CSV file *)

NoFile == [exists |-> FALSE, header |-> FALSE, rows |-> <<>>]

\* a file left by an earlier run
StaleFile == [exists |-> TRUE, header |-> TRUE, rows |-> <<<<1, 1, 1>>>>]

\* open(filename, "w") succeeded and nothing was flushed
TruncatedFile == [exists |-> TRUE, header |-> FALSE, rows |-> <<>>]

\* csv.DictWriter writes None as the empty string
CsvField(v) == IF v = None THEN Empty ELSE v

CsvRow(r) == <<CsvField(r.title), CsvField(r.url), CsvField(r.snippet)>>

\* file content after a successful save_csv(rs, filename)
save_csv(rs) ==
    [exists |-> TRUE, header |-> TRUE,
     rows |-> [k \in 1..Len(rs) |-> CsvRow(rs[k])]]

SaveOutcomes == {"ok", "open_error", "write_error"}

----------------------------------------------------------------------------
(* E-mail *)

NoAttachment == [present |-> FALSE, filename |-> "", data |-> NoFile]

\* the stages of send_email that can raise, and success
SendOutcomes == {"ok", "read_error", "connect_error", "starttls_error",
                 "login_error", "send_error"}

\* first n elements, as the slice results[:n]
Take(s, n) == SubSeq(s, 1, IF Len(s) < n THEN Len(s) ELSE n)

\* top_lines without the [:10] slice
top_lines_all(rs) ==
    [i \in 1..Len(rs) |->
        [index |-> i, title |-> rs[i].title, url |-> rs[i].url,
         snippet |-> rs[i].snippet]]

\* for i, r in enumerate(results[:10], start=1): one entry per record
top_lines(rs) ==
    [i \in 1..Len(Take(rs, TopN)) |->
        [index |-> i, title |-> rs[i].title, url |-> rs[i].url,
         snippet |-> rs[i].snippet]]

NoResultsBody == [text |-> "No results found on <timestamp>", entries |-> <<>>]

ReportBody(rs) ==
    [text |-> "Daily Jobs Report - Entry-level Cloud/DevOps (AWS)",
     entries |-> top_lines(rs)]

\* the message send_email builds; the attachment is read back from disk
Message(subject, body, attach) ==
    [subject |-> subject, body |-> body,
     attachment |-> IF attach
                    THEN [present |-> TRUE, filename |-> CsvPath, data |-> csvFile]
                    ELSE NoAttachment]

\* send_email(subject, body, attachment_path): effect on the mail state for
\* one outcome.  Reading the attachment happens before the connection.
send_email(subject, body, attach, outcome) ==
    /\ (outcome = "read_error") => attach
    /\ sendLog' = Append(sendLog, [subject |-> subject, attach |-> attach,
                                   outcome |-> outcome])
    /\ smtpConnects' = IF outcome = "read_error" THEN smtpConnects
                       ELSE smtpConnects + 1
    /\ emails' = IF outcome = "ok"
                 THEN Append(emails, Message(subject, body, attach))
                 ELSE emails

----------------------------------------------------------------------------
(* main *)

Init ==
    /\ env \in [RequiredVars -> EnvValues]
    /\ pc = "check_config"
    /\ qi = 1
    /\ all_results = <<>>
    /\ results = <<>>
    /\ csvFile \in {NoFile, StaleFile}
    /\ emails = <<>>
    /\ stdout = <<>>
    /\ exitCode = -1
    /\ attempts = <<>>
    /\ fetched = <<>>
    /\ saveLog = <<>>
    /\ sendLog = <<>>
    /\ smtpConnects = 0

\* the check written with "is None": an empty value passes
CheckConfig_none_only ==
    /\ pc = "check_config"
    /\ IF \E v \in RequiredVars : env[v] = None
       THEN /\ pc' = "exit"
            /\ exitCode' = 1
       ELSE /\ pc' = "search"
            /\ exitCode' = exitCode
    /\ UNCHANGED <<env, qi, all_results, results, csvFile, emails, stdout,
                   attempts, fetched, saveLog, sendLog, smtpConnects>>

\* if not GOOGLE_API_KEY or ... : raise SystemExit(...)
CheckConfig ==
    /\ pc = "check_config"
    /\ IF \E v \in RequiredVars : ~Truthy(env[v])
       THEN /\ pc' = "exit"
            /\ exitCode' = 1
       ELSE /\ pc' = "search"
            /\ exitCode' = exitCode
    /\ UNCHANGED <<env, qi, all_results, results, csvFile, emails, stdout,
                   attempts, fetched, saveLog, sendLog, smtpConnects>>

\* the loop with the try around it: the first failing search ends the loop
SearchQuery_abort_on_error ==
    /\ pc = "search"
    /\ qi <= Len(QUERIES)
    /\ \E o \in SearchOutcomes :
        /\ attempts' = Append(attempts, QUERIES[qi])
        /\ IF o.kind = "ok"
           THEN /\ all_results' = all_results \o extract_results(o.json)
                /\ fetched' = Append(fetched,
                                [ok |-> TRUE, recs |-> extract_results(o.json)])
                /\ stdout' = stdout
                /\ qi' = qi + 1
           ELSE /\ all_results' = all_results
                /\ fetched' = Append(fetched, [ok |-> FALSE, recs |-> <<>>])
                /\ stdout' = Append(stdout, "Search error")
                /\ qi' = Len(QUERIES) + 1
    /\ UNCHANGED <<env, pc, results, csvFile, emails, exitCode, saveLog,
                   sendLog, smtpConnects>>

\* one iteration of: for q in QUERIES: try ... except Exception
SearchQuery ==
    /\ pc = "search"
    /\ qi <= Len(QUERIES)
    /\ \E o \in SearchOutcomes :
        /\ attempts' = Append(attempts, QUERIES[qi])
        /\ IF o.kind = "ok"
           THEN /\ all_results' = all_results \o extract_results(o.json)
                /\ fetched' = Append(fetched,
                                [ok |-> TRUE, recs |-> extract_results(o.json)])
                /\ stdout' = stdout
           ELSE /\ all_results' = all_results
                /\ fetched' = Append(fetched, [ok |-> FALSE, recs |-> <<>>])
                /\ stdout' = Append(stdout, "Search error")
    /\ qi' = qi + 1
    /\ UNCHANGED <<env, pc, results, csvFile, emails, exitCode, saveLog,
                   sendLog, smtpConnects>>

\* results = dedupe(all_results)
Dedupe ==
    /\ pc = "search"
    /\ qi > Len(QUERIES)
    /\ results' = dedupe(all_results)
    /\ pc' = "report"
    /\ UNCHANGED <<env, qi, all_results, csvFile, emails, stdout, exitCode,
                   attempts, fetched, saveLog, sendLog, smtpConnects>>

\* if not results: send_email("... No Results", body); return
SendNoResults ==
    /\ pc = "report"
    /\ results = <<>>
    /\ \E o \in SendOutcomes :
        /\ send_email(NoResultsSubject, NoResultsBody, FALSE, o)
        /\ exitCode' = IF o = "ok" THEN 0 ELSE 1
    /\ pc' = "exit"
    /\ UNCHANGED <<env, qi, all_results, results, csvFile, stdout, attempts,
                   fetched, saveLog>>

\* save_csv called before the "if not results" test
SaveCsv_unguarded ==
    /\ pc = "report"
    /\ \E o \in SaveOutcomes :
        /\ saveLog' = Append(saveLog, o)
        /\ csvFile' = CASE o = "ok" -> save_csv(results)
                        [] o = "open_error" -> csvFile
                        [] o = "write_error" -> TruncatedFile
        /\ IF o = "ok"
           THEN pc' = "compose" /\ exitCode' = exitCode
           ELSE pc' = "exit" /\ exitCode' = 1
    /\ UNCHANGED <<env, qi, all_results, results, emails, stdout, attempts,
                   fetched, sendLog, smtpConnects>>

\* save_csv(results, csvfile)
SaveCsv ==
    /\ pc = "report"
    /\ results /= <<>>
    /\ \E o \in SaveOutcomes :
        /\ saveLog' = Append(saveLog, o)
        /\ csvFile' = CASE o = "ok" -> save_csv(results)
                        [] o = "open_error" -> csvFile
                        [] o = "write_error" -> TruncatedFile
        /\ IF o = "ok"
           THEN pc' = "compose" /\ exitCode' = exitCode
           ELSE pc' = "exit" /\ exitCode' = 1
    /\ UNCHANGED <<env, qi, all_results, results, emails, stdout, attempts,
                   fetched, sendLog, smtpConnects>>

\* send_email wrapped in try/except: a failed send is swallowed
SendReport_continue_on_error ==
    /\ pc = "compose"
    /\ \E o \in SendOutcomes :
        send_email(ReportSubject, ReportBody(results), TRUE, o)
    /\ pc' = "print"
    /\ UNCHANGED <<env, qi, all_results, results, csvFile, stdout, exitCode,
                   attempts, fetched, saveLog>>

\* send_email called without attachment_path
SendReport_no_attachment ==
    /\ pc = "compose"
    /\ \E o \in SendOutcomes :
        /\ send_email(ReportSubject, ReportBody(results), FALSE, o)
        /\ IF o = "ok"
           THEN pc' = "print" /\ exitCode' = exitCode
           ELSE pc' = "exit" /\ exitCode' = 1
    /\ UNCHANGED <<env, qi, all_results, results, csvFile, stdout, attempts,
                   fetched, saveLog>>

\* top_lines, body, subject; send_email(subject, body, attachment_path=csvfile)
SendReport ==
    /\ pc = "compose"
    /\ \E o \in SendOutcomes :
        /\ send_email(ReportSubject, ReportBody(results), TRUE, o)
        /\ IF o = "ok"
           THEN pc' = "print" /\ exitCode' = exitCode
           ELSE pc' = "exit" /\ exitCode' = 1
    /\ UNCHANGED <<env, qi, all_results, results, csvFile, stdout, attempts,
                   fetched, saveLog>>

\* main returning without the final print
PrintReportSent_silent ==
    /\ pc = "print"
    /\ pc' = "exit"
    /\ exitCode' = 0
    /\ UNCHANGED <<env, qi, all_results, results, csvFile, emails, stdout,
                   attempts, fetched, saveLog, sendLog, smtpConnects>>

\* print("Report sent.")
PrintReportSent ==
    /\ pc = "print"
    /\ stdout' = Append(stdout, "Report sent.")
    /\ pc' = "exit"
    /\ exitCode' = 0
    /\ UNCHANGED <<env, qi, all_results, results, csvFile, emails, attempts,
                   fetched, saveLog, sendLog, smtpConnects>>

Next ==
    \/ CheckConfig
    \/ SearchQuery
    \/ Dedupe
    \/ SendNoResults
    \/ SaveCsv
    \/ SendReport
    \/ PrintReportSent

Spec == Init /\ [][Next]_vars

----------------------------------------------------------------------------
(* Properties *)

ConfigOk == \A v \in RequiredVars : Truthy(env[v])

\* main has computed results = dedupe(all_results)
Deduped == ConfigOk /\ pc \in {"report", "compose", "print", "exit"}

\* the state right after results = dedupe(all_results); neither list changes
\* afterwards
JustDeduped == pc = "report"

\* number of positions of s holding r
Count(s, r) == Cardinality({k \in DOMAIN s : s[k] = r})

NoSharedUrl(s) ==
    \A i, j \in DOMAIN s :
        (i < j /\ Truthy(s[i].url)) => s[i].url /= s[j].url

\* the input has a non-empty url twice
HasDuplicateUrl(s) ==
    \E i, j \in DOMAIN s : i < j /\ Truthy(s[i].url) /\ s[i].url = s[j].url

\* C1: the output of dedupe never holds two records with the same non-empty
\* url, for the accumulated input at every point of the run, and the sequence
\* main hands to the reporter (results) never does either.
C1_UniqueUrls ==
    /\ NoSharedUrl(dedupe(all_results))
    /\ Deduped => (results = dedupe(all_results) /\ NoSharedUrl(results))

C1_Witness ==
    /\ pc = "report"
    /\ HasDuplicateUrl(all_results)
    /\ Len(results) >= 2

\* C2 as stated: every record without a url is in the output of dedupe as
\* often as in the input.
C2_EmptyUrlKept ==
    JustDeduped =>
        \A i \in DOMAIN all_results :
            ~Truthy(all_results[i].url) =>
                Count(results, all_results[i]) = Count(all_results, all_results[i])

\* C2 amended: every record whose url is empty or absent is dropped by
\* dedupe: it is in the output zero times, however often it is in the input,
\* and every output record has a non-empty url.
C2_EmptyUrlDropped ==
    JustDeduped =>
        /\ \A i \in DOMAIN all_results :
               ~Truthy(all_results[i].url) => Count(results, all_results[i]) = 0
        /\ \A k \in DOMAIN results : Truthy(results[k].url)

C2_Witness ==
    /\ pc = "report"
    /\ \E i, j \in DOMAIN all_results :
          /\ i < j
          /\ all_results[i].url = None
          /\ all_results[j].url = Empty
    /\ results /= <<>>

\* first position of url u in s
FirstIdx(s, u) ==
    CHOOSE i \in DOMAIN s : s[i].url = u /\ \A j \in 1..(i - 1) : s[j].url /= u

\* position i of s is the occurrence dedupe keeps: non-empty url, seen first
IsFirstOccurrence(s, i) ==
    Truthy(s[i].url) /\ \A j \in 1..(i - 1) : s[j].url /= s[i].url

\* positions of the output where r stands
PositionsOf(s, r) == {k \in DOMAIN s : s[k] = r}

----------------------------------------------------------------------------
(* Properties of main *)

\* the records of the successful attempts, in attempt order
RECURSIVE ConcatSucceeded(_)
ConcatSucceeded(f) ==
    IF f = <<>> THEN <<>>
    ELSE (IF Head(f).ok THEN Head(f).recs ELSE <<>>) \o ConcatSucceeded(Tail(f))

Printed(line) == \E k \in DOMAIN stdout : stdout[k] = line

Failed(f) == {k \in DOMAIN f : ~f[k].ok}

\* C4: every query is attempted exactly once, in list order, whether or not
\* earlier ones failed; a failing search adds no record, is logged and does
\* not end the run; the list dedupe gets is the concatenation, in query
\* order, of the records of the searches that succeeded.
C4_EveryQueryOnceInOrder ==
    /\ Len(fetched) = Len(attempts)
    /\ attempts = SubSeq(QUERIES, 1, Len(attempts))
    /\ all_results = ConcatSucceeded(fetched)
    /\ Cardinality({k \in DOMAIN stdout : stdout[k] = "Search error"})
         = Cardinality(Failed(fetched))
    /\ pc = "search" => (Len(attempts) = qi - 1 /\ exitCode = -1)
    /\ Deduped => (attempts = QUERIES /\ results = dedupe(ConcatSucceeded(fetched)))

\* the first search fails and the next two still bring records
C4_Witness ==
    /\ pc = "report"
    /\ ~fetched[1].ok
    /\ fetched[2].ok /\ fetched[2].recs /= <<>>
    /\ fetched[3].ok /\ fetched[3].recs /= <<>>
    /\ all_results = fetched[2].recs \o fetched[3].recs

\* C5: with any of the five required values missing or empty the run ends
\* with a non-zero exit at the configuration check: no search is attempted,
\* the CSV file is never opened for writing, send_email is never called and no
\* SMTP connection is attempted.
C5_MissingConfigAborts ==
    ~ConfigOk =>
        /\ pc \in {"check_config", "exit"}
        /\ pc = "exit" => exitCode = 1
        /\ attempts = <<>>
        /\ saveLog = <<>>
        /\ csvFile \in {NoFile, StaleFile}
        /\ sendLog = <<>>
        /\ smtpConnects = 0
        /\ emails = <<>>

\* only the relay password is empty, and the run has ended
C5_Witness ==
    /\ pc = "exit"
    /\ exitCode = 1
    /\ env["SMTP_PASS"] = Empty
    /\ \A v \in RequiredVars \ {"SMTP_PASS"} : Truthy(env[v])

\* C6 as stated: whenever the deduplicated sequence is empty, the run has
\* sent exactly one e-mail when it ends, a "No Results" one without
\* attachment, and the CSV file was not written.
C6_OneNoResultsEmailAlways ==
    (Deduped /\ pc = "exit" /\ results = <<>>) =>
        /\ Len(emails) = 1
        /\ emails[1].subject = NoResultsSubject
        /\ ~emails[1].attachment.present
        /\ saveLog = <<>>

\* C6 amended: whenever the deduplicated sequence is empty, the run calls
\* send_email exactly once, with the "No Results" subject and no attachment,
\* and never writes the CSV file; the one e-mail is sent when no step of that
\* call fails, and when one fails no e-mail is sent and the run ends with an
\* error.
C6_NoResultsPath ==
    (Deduped /\ results = <<>>) =>
        /\ pc \in {"report", "exit"}
        /\ saveLog = <<>>
        /\ csvFile \in {NoFile, StaleFile}
        /\ pc = "report" => (sendLog = <<>> /\ emails = <<>>)
        /\ pc = "exit" =>
            /\ Len(sendLog) = 1
            /\ sendLog[1].subject = NoResultsSubject
            /\ ~sendLog[1].attach
            /\ sendLog[1].outcome = "ok" =>
                  /\ exitCode = 0
                  /\ Len(emails) = 1
                  /\ emails[1].subject = NoResultsSubject
                  /\ ~emails[1].attachment.present
            /\ sendLog[1].outcome /= "ok" => (exitCode = 1 /\ emails = <<>>)

\* every query failed, a file of an earlier run is on disk, the mail went out
C6_Witness ==
    /\ pc = "exit"
    /\ ConfigOk
    /\ Failed(fetched) = DOMAIN QUERIES
    /\ results = <<>>
    /\ Len(emails) = 1
    /\ csvFile = StaleFile

\* C7: reporter failures are fatal and not retried.  After a failed CSV write
\* the run has ended with an error and send_email was never called; after a
\* failed step of send_email the run has ended with an error, send_email was
\* called once only, no e-mail went out and "Report sent." is not printed.
C7_ReporterFailuresFatal ==
    /\ (\E k \in DOMAIN saveLog : saveLog[k] /= "ok") =>
          /\ pc = "exit"
          /\ exitCode = 1
          /\ Len(saveLog) = 1
          /\ sendLog = <<>>
          /\ smtpConnects = 0
          /\ emails = <<>>
          /\ ~Printed("Report sent.")
    /\ (\E k \in DOMAIN sendLog : sendLog[k].outcome /= "ok") =>
          /\ pc = "exit"
          /\ exitCode = 1
          /\ Len(sendLog) = 1
          /\ smtpConnects <= 1
          /\ emails = <<>>
          /\ ~Printed("Report sent.")

\* the CSV was written and the login at the relay failed
C7_Witness ==
    /\ pc = "exit"
    /\ saveLog = <<"ok">>
    /\ Len(sendLog) = 1
    /\ sendLog[1].attach
    /\ sendLog[1].outcome = "login_error"

\* C8 as stated: every run that ends with status zero has printed the
\* confirmation line.
C8_ConfirmationOnEveryCleanExit ==
    (pc = "exit" /\ exitCode = 0) => Printed("Report sent.")

NoReporterError ==
    /\ \A k \in DOMAIN saveLog : saveLog[k] = "ok"
    /\ \A k \in DOMAIN sendLog : sendLog[k].outcome = "ok"

\* C8 amended: every run that passes the configuration check and ends without
\* a reporter error exits with status zero; on the non-empty-results path it
\* prints the confirmation as its last line, once, before exiting; on the
\* empty-results path it returns without printing it.
C8_ConfirmationOnReportPathOnly ==
    (Deduped /\ pc = "exit" /\ NoReporterError) =>
        /\ exitCode = 0
        /\ results /= <<>> =>
              /\ stdout /= <<>>
              /\ stdout[Len(stdout)] = "Report sent."
              /\ Cardinality({k \in DOMAIN stdout : stdout[k] = "Report sent."}) = 1
        /\ results = <<>> => ~Printed("Report sent.")

C8_Witness ==
    /\ pc = "exit"
    /\ exitCode = 0
    /\ results /= <<>>
    /\ Printed("Report sent.")
    /\ Printed("Search error")

RowsOf(rs) == [k \in 1..Len(rs) |-> CsvRow(rs[k])]

\* C9: with a non-empty deduplicated sequence and no reporter error, the CSV
\* file is written exactly once, with the whole sequence, before send_email
\* is called; the one e-mail of the run carries the content of that file as
\* its attachment.
C9_CsvThenOneEmail ==
    /\ (Deduped /\ results /= <<>> /\ sendLog /= <<>>) =>
          /\ saveLog = <<"ok">>
          /\ csvFile.exists /\ csvFile.header
          /\ csvFile.rows = RowsOf(results)
          /\ \A k \in DOMAIN sendLog : sendLog[k].attach
    /\ (Deduped /\ results /= <<>> /\ NoReporterError /\ pc \in {"print", "exit"}) =>
          /\ Len(saveLog) = 1
          /\ Len(sendLog) = 1
          /\ Len(emails) = 1
          /\ emails[1].subject = ReportSubject
          /\ emails[1].attachment.present
          /\ emails[1].attachment.filename = CsvPath
          /\ emails[1].attachment.data.header
          /\ emails[1].attachment.data.rows = RowsOf(results)
          /\ emails[1].attachment.data = csvFile

C9_Witness ==
    /\ pc = "exit"
    /\ exitCode = 0
    /\ Len(results) >= 2
    /\ Len(emails) = 1
    /\ emails[1].attachment.data.rows = RowsOf(results)

Min(a, b) == IF a < b THEN a ELSE b

\* C10: for n >= 1 deduplicated records the body of the report lists exactly
\* min(n, 10) entries, the first min(n, 10) records in order, numbered from 1;
\* the CSV file holds all n records, one row each, in the same order.
C10_BodyTopTenCsvAll ==
    (Deduped /\ results /= <<>> /\ emails /= <<>>) =>
        LET entries == emails[1].body.entries
            n == Len(results)
        IN  /\ Len(entries) = Min(n, TopN)
            /\ \A i \in DOMAIN entries :
                  /\ entries[i].index = i
                  /\ entries[i].title = results[i].title
                  /\ entries[i].url = results[i].url
                  /\ entries[i].snippet = results[i].snippet
            /\ Len(csvFile.rows) = n
            /\ \A k \in 1..n : csvFile.rows[k] = CsvRow(results[k])

\* more records than the body lists
C10_Witness ==
    /\ pc = "exit"
    /\ exitCode = 0
    /\ Len(results) > TopN
    /\ Len(emails) = 1
    /\ Len(emails[1].body.entries) = TopN
    /\ Len(csvFile.rows) = Len(results)

====
